---- MODULE Spec2Model ----
(***************************************************************************)
(* Model of the generate -> validate -> persist -> execute pipeline of     *)
(* backend/llm_engine.py and of the request handlers of backend/server.py. *)
(*                                                                         *)
(* A Python str is a sequence of one-character strings.  The regular       *)
(* expressions of validate_code and generate_action_code are interpreted   *)
(* by a small matcher over such sequences.                                 *)
(***************************************************************************)
EXTENDS Integers, Sequences, FiniteSets, TLC

(***************************************************************************)
(* Characters and character classes of Python's re module.                 *)
(***************************************************************************)
LowerLetters ==
    <<"a","b","c","d","e","f","g","h","i","j","k","l","m",
      "n","o","p","q","r","s","t","u","v","w","x","y","z">>

UpperLetters ==
    <<"A","B","C","D","E","F","G","H","I","J","K","L","M",
      "N","O","P","Q","R","S","T","U","V","W","X","Y","Z">>

Digits == {"0","1","2","3","4","5","6","7","8","9"}

Range(f) == {f[k] : k \in DOMAIN f}

\* str.lower() of one character, as re.IGNORECASE compares characters.
Lower(c) ==
    IF c \in Range(UpperLetters)
    THEN LowerLetters[CHOOSE k \in DOMAIN UpperLetters : UpperLetters[k] = c]
    ELSE c

\* The classes \s, \w, ".", [a-zA-Z] and ['\"] of the patterns.
InClass(c, cls) ==
    CASE cls = "space" -> c \in {" ", "\t", "\n", "\r", "\f"}
      [] cls = "word"  -> c \in Range(LowerLetters) \cup Range(UpperLetters) \cup Digits \cup {"_"}
      [] cls = "dot"   -> c # "\n"
      [] cls = "alpha" -> c \in Range(LowerLetters) \cup Range(UpperLetters)
      [] cls = "quote" -> c \in {"'", "\""}

\* The literal lit occurs in s at position i (ic: re.IGNORECASE).
LitAt(s, i, lit, ic) ==
    /\ i + Len(lit) - 1 <= Len(s)
    /\ \A k \in 1..Len(lit) :
          IF ic THEN Lower(s[i + k - 1]) = Lower(lit[k]) ELSE s[i + k - 1] = lit[k]

\* \b at position i: exactly one of the characters around i is a word character.
Boundary(s, i) ==
    LET before == i > 1 /\ InClass(s[i - 1], "word")
        after  == i <= Len(s) /\ InClass(s[i], "word")
    IN  before # after

\* First position at or after i whose character is not in cls.
RECURSIVE RunEnd(_, _, _)
RunEnd(s, i, cls) ==
    IF i <= Len(s) /\ InClass(s[i], cls) THEN RunEnd(s, i + 1, cls) ELSE i

(***************************************************************************)
(* Pattern elements.  A pattern is a sequence of elements.                 *)
(***************************************************************************)
Lit(chars)  == [t |-> "lit", s |-> chars, cls |-> "", alts |-> {}]
Opt(chars)  == [t |-> "opt", s |-> chars, cls |-> "", alts |-> {}]
Alt(set)    == [t |-> "alt", s |-> <<>>, cls |-> "", alts |-> set]
Star(cls)   == [t |-> "star", s |-> <<>>, cls |-> cls, alts |-> {}]
Plus(cls)   == [t |-> "plus", s |-> <<>>, cls |-> cls, alts |-> {}]
One(cls)    == [t |-> "one", s |-> <<>>, cls |-> cls, alts |-> {}]
WordB       == [t |-> "b", s |-> <<>>, cls |-> "", alts |-> {}]
Bol         == [t |-> "bol", s |-> <<>>, cls |-> "", alts |-> {}]
Bos         == [t |-> "bos", s |-> <<>>, cls |-> "", alts |-> {}]
Eos         == [t |-> "eos", s |-> <<>>, cls |-> "", alts |-> {}]

\* The positions at which a match of re[k..] that starts at i can end.
\* "bol" is ^ under re.MULTILINE, "bos" is ^ without it, "eos" is $ without it.
RECURSIVE MatchEnds(_, _, _, _, _)
MatchEnds(re, k, s, i, ic) ==
    IF k > Len(re) THEN {i}
    ELSE LET e == re[k]
             rest(j) == MatchEnds(re, k + 1, s, j, ic)
         IN CASE e.t = "lit"  -> IF LitAt(s, i, e.s, ic) THEN rest(i + Len(e.s)) ELSE {}
              [] e.t = "opt"  -> rest(i) \cup
                                 (IF LitAt(s, i, e.s, ic) THEN rest(i + Len(e.s)) ELSE {})
              [] e.t = "alt"  -> UNION {rest(i + Len(a)) : a \in {b \in e.alts : LitAt(s, i, b, ic)}}
              [] e.t = "star" -> UNION {rest(j) : j \in i..RunEnd(s, i, e.cls)}
              [] e.t = "plus" -> UNION {rest(j) : j \in (i + 1)..RunEnd(s, i, e.cls)}
              [] e.t = "one"  -> IF i <= Len(s) /\ InClass(s[i], e.cls) THEN rest(i + 1) ELSE {}
              [] e.t = "b"    -> IF Boundary(s, i) THEN rest(i) ELSE {}
              [] e.t = "bol"  -> IF i = 1 \/ s[i - 1] = "\n" THEN rest(i) ELSE {}
              [] e.t = "bos"  -> IF i = 1 THEN rest(i) ELSE {}
              [] e.t = "eos"  -> IF i = Len(s) + 1 \/ (i = Len(s) /\ s[i] = "\n")
                                 THEN rest(i) ELSE {}

\* re.search(pattern, s, flags) is not None
Search(re, s, ic) == \E i \in 1..(Len(s) + 1) : MatchEnds(re, 1, s, i, ic) # {}

(***************************************************************************)
(* llm_engine.py: configuration.                                           *)
(***************************************************************************)
m_pyautogui  == <<"p","y","a","u","t","o","g","u","i">>
m_subprocess == <<"s","u","b","p","r","o","c","e","s","s">>
m_time       == <<"t","i","m","e">>
m_os         == <<"o","s">>
m_socket     == <<"s","o","c","k","e","t">>
m_xml        == <<"x","m","l">>

ALLOWED_IMPORTS == {m_pyautogui, m_subprocess, m_time, m_os}

\* The deny-list, in list order; every pattern is searched with re.IGNORECASE.
BLOCKED_PATTERNS == <<
    \* \bshutil\.rmtree\b
    <<WordB, Lit(<<"s","h","u","t","i","l",".","r","m","t","r","e","e">>), WordB>>,
    \* \bos\.remove\b
    <<WordB, Lit(<<"o","s",".","r","e","m","o","v","e">>), WordB>>,
    \* \bos\.unlink\b
    <<WordB, Lit(<<"o","s",".","u","n","l","i","n","k">>), WordB>>,
    \* \bos\.rmdir\b
    <<WordB, Lit(<<"o","s",".","r","m","d","i","r">>), WordB>>,
    \* \bos\.system\b.*?(rm |del |format |rd )
    <<WordB, Lit(<<"o","s",".","s","y","s","t","e","m">>), WordB, Star("dot"),
      Alt({<<"r","m"," ">>, <<"d","e","l"," ">>, <<"f","o","r","m","a","t"," ">>, <<"r","d"," ">>})>>,
    \* \bsubprocess\..*?(rm |del |format |rd |rmdir)
    <<WordB, Lit(<<"s","u","b","p","r","o","c","e","s","s",".">>), Star("dot"),
      Alt({<<"r","m"," ">>, <<"d","e","l"," ">>, <<"f","o","r","m","a","t"," ">>, <<"r","d"," ">>,
           <<"r","m","d","i","r">>})>>,
    \* \b__import__\b
    <<WordB, Lit(<<"_","_","i","m","p","o","r","t","_","_">>), WordB>>,
    \* \beval\b
    <<WordB, Lit(<<"e","v","a","l">>), WordB>>,
    \* \bexec\b
    <<WordB, Lit(<<"e","x","e","c">>), WordB>>,
    \* \bopen\s*\(.*?,\s*['\"]w
    <<WordB, Lit(<<"o","p","e","n">>), Star("space"), Lit(<<"(">>), Star("dot"), Lit(<<",">>),
      Star("space"), One("quote"), Lit(<<"w">>)>>,
    \* \bformat\s+[a-zA-Z]:
    <<WordB, Lit(<<"f","o","r","m","a","t">>), Plus("space"), One("alpha"), Lit(<<":">>)>>
  >>

\* ^\s*import\s+ and ^\s*from\s+ : what precedes the group (\w+); re.MULTILINE.
ImportPrefix == <<Bol, Star("space"), Lit(<<"i","m","p","o","r","t">>), Plus("space")>>
FromPrefix   == <<Bol, Star("space"), Lit(<<"f","r","o","m">>), Plus("space")>>

\* The line bound of validate_code.
MAX_LINES == 50

(***************************************************************************)
(* llm_engine.py: validate_code.                                           *)
(***************************************************************************)
SetMin(S) == CHOOSE x \in S : \A y \in S : x <= y

\* Where the group (\w+) starts when prefix matches at i: the prefix has
\* ended and a word character follows.
GroupStarts(prefix, s, i) ==
    {e \in MatchEnds(prefix, 1, s, i, FALSE) : e <= Len(s) /\ InClass(s[e], "word")}

\* re.findall(prefix + r"(\w+)", s, re.MULTILINE) from position p on: the
\* leftmost match, its group, then the scan resumes where the match ended.
RECURSIVE FindAll(_, _, _)
FindAll(prefix, s, p) ==
    LET starts == {i \in p..(Len(s) + 1) : GroupStarts(prefix, s, i) # {}}
    IN  IF starts = {} THEN <<>>
        ELSE LET i == SetMin(starts)
                 e == CHOOSE x \in GroupStarts(prefix, s, i) : TRUE
                 f == RunEnd(s, e, "word")
             IN  <<SubSeq(s, e, f - 1)>> \o FindAll(prefix, s, f)

\* s.split(sep) for a one-character separator.
RECURSIVE Split(_, _)
Split(s, sep) ==
    LET hits == {i \in 1..Len(s) : s[i] = sep}
    IN  IF hits = {} THEN <<s>>
        ELSE LET i == SetMin(hits)
             IN  <<SubSeq(s, 1, i - 1)>> \o Split(SubSeq(s, i + 1, Len(s)), sep)

\* The verdicts {"safe": ..., "reason": ...}; a reason is its fixed text with
\* the value formatted into it (the pattern by its index in BLOCKED_PATTERNS).
Verdict(safe, text, pattern, names) ==
    [safe |-> safe, reason |-> [text |-> text, pattern |-> pattern, names |-> names]]

\* Check for blocked patterns: the patterns that match, in list order.
BlockedHits(code) ==
    {k \in DOMAIN BLOCKED_PATTERNS : Search(BLOCKED_PATTERNS[k], code, TRUE)}

\* all_imports = set(import_matches + from_matches)
AllImports(code) ==
    Range(FindAll(ImportPrefix, code, 1) \o FindAll(FromPrefix, code, 1))

\* len(code.split("\n")) > 50
TooLong(code) == Len(Split(code, "\n")) > MAX_LINES

validate_code(code) ==
    LET hits == BlockedHits(code)
        disallowed == AllImports(code) \ ALLOWED_IMPORTS
    IN  IF hits # {}
        THEN Verdict(FALSE, "Blocked dangerous pattern: ", SetMin(hits), {})
        ELSE IF disallowed # {}
        THEN Verdict(FALSE, "Disallowed imports: ", 0, disallowed)
        ELSE IF TooLong(code)
        THEN Verdict(FALSE, "Code too long (max 50 lines)", 0, {})
        ELSE Verdict(TRUE, "", 0, {})

(***************************************************************************)
(* Source lines used as inputs.  LineText gives a line's characters;       *)
(* LineImports the top-level modules the Python statement on that line     *)
(* imports; LineEffect what running the line does: "ok", "error" (raises   *)
(* an Exception), "exit" (raises SystemExit, a BaseException) or "syntax"  *)
(* (the text does not compile).                                            *)
(***************************************************************************)
LineText ==
    "import os"                  :> <<"i","m","p","o","r","t"," ","o","s">> @@
    "import time"                :> <<"i","m","p","o","r","t"," ","t","i","m","e">> @@
    "import socket"              :> <<"i","m","p","o","r","t"," ","s","o","c","k","e","t">> @@
    "import os, socket"          :> <<"i","m","p","o","r","t"," ","o","s",","," ","s","o","c","k","e","t">> @@
    "import os.path"             :> <<"i","m","p","o","r","t"," ","o","s",".","p","a","t","h">> @@
    "import xml.dom"             :> <<"i","m","p","o","r","t"," ","x","m","l",".","d","o","m">> @@
    "from os import path"        :> <<"f","r","o","m"," ","o","s"," ","i","m","p","o","r","t"," ","p","a","t","h">> @@
    "from socket import socket"  :> <<"f","r","o","m"," ","s","o","c","k","e","t"," ","i","m","p","o","r","t"," ","s","o","c","k","e","t">> @@
    "x = 1; import socket"       :> <<"x"," ","="," ","1",";"," ","i","m","p","o","r","t"," ","s","o","c","k","e","t">> @@
    "x = 1"                      :> <<"x"," ","="," ","1">> @@
    "1"                          :> <<"1">> @@
    "evaluate(x)"                :> <<"e","v","a","l","u","a","t","e","(","x",")">> @@
    "raise SystemExit"           :> <<"r","a","i","s","e"," ","S","y","s","t","e","m","E","x","i","t">> @@
    "1/0"                        :> <<"1","/","0">> @@
    "x = ("                      :> <<"x"," ","="," ","(">> @@
    "shutil.rmtree(p)"           :> <<"s","h","u","t","i","l",".","r","m","t","r","e","e","(","p",")">> @@
    "os.remove(p)"               :> <<"o","s",".","r","e","m","o","v","e","(","p",")">> @@
    "os.unlink(p)"               :> <<"o","s",".","u","n","l","i","n","k","(","p",")">> @@
    "os.rmdir(p)"                :> <<"o","s",".","r","m","d","i","r","(","p",")">> @@
    "os.system('rm x')"          :> <<"o","s",".","s","y","s","t","e","m","(","'","r","m"," ","x","'",")">> @@
    "subprocess.run('del x')"    :> <<"s","u","b","p","r","o","c","e","s","s",".","r","u","n","(","'","d","e","l"," ","x","'",")">> @@
    "__import__('socket')"       :> <<"_","_","i","m","p","o","r","t","_","_","(","'","s","o","c","k","e","t","'",")">> @@
    "eval(x)"                    :> <<"e","v","a","l","(","x",")">> @@
    "EVAL(x)"                    :> <<"E","V","A","L","(","x",")">> @@
    "exec(x)"                    :> <<"e","x","e","c","(","x",")">> @@
    "open(p, 'w')"               :> <<"o","p","e","n","(","p",","," ","'","w","'",")">> @@
    "format c:"                  :> <<"f","o","r","m","a","t"," ","c",":">>

Lines == DOMAIN LineText

\* In the server model a text is kept as a string; Chars gives its characters
\* and StrOf the string of a sequence of characters.
Chars(str) == IF str \in Lines THEN LineText[str] ELSE <<>>

StrOf(chars) ==
    IF \E l \in Lines : LineText[l] = chars
    THEN CHOOSE l \in Lines : LineText[l] = chars
    ELSE ""

LineImports(l) ==
    CASE l \in {"import os", "import os.path", "from os import path"} -> {m_os}
      [] l = "import time" -> {m_time}
      [] l \in {"import socket", "from socket import socket", "x = 1; import socket",
                "__import__('socket')"} -> {m_socket}
      [] l = "import os, socket" -> {m_os, m_socket}
      [] l = "import xml.dom" -> {m_xml}
      [] OTHER -> {}

LineEffect(l) ==
    CASE l \in {"x = (", "format c:"} -> "syntax"
      [] l = "raise SystemExit" -> "exit"
      [] l \in {"1/0", "evaluate(x)", "shutil.rmtree(p)", "os.remove(p)", "os.unlink(p)",
                "os.rmdir(p)", "os.system('rm x')", "subprocess.run('del x')", "eval(x)",
                "EVAL(x)", "exec(x)", "open(p, 'w')"} -> "error"
      [] OTHER -> "ok"

\* "\n".join(lines), with a final "\n" when nl.
RECURSIVE Join(_)
Join(lines) ==
    IF lines = <<>> THEN <<>>
    ELSE IF Len(lines) = 1 THEN LineText[lines[1]]
    ELSE LineText[lines[1]] \o <<"\n">> \o Join(Tail(lines))

Text(prog) == Join(prog.lines) \o (IF prog.nl THEN <<"\n">> ELSE <<>>)

\* n copies of the one-character line "1".
Filler(n) == [k \in 1..n |-> "1"]

(***************************************************************************)
(* Bounds of the inputs.                                                   *)
(***************************************************************************)
\* Filler lines appended to a short program.
MaxFill == 1
\* How far around MAX_LINES the long programs' line counts range.
LenSlack == 1

ShortProgs ==
    {[lines |-> h \o Filler(n), nl |-> nl] :
        h \in {<<>>} \cup {<<a>> : a \in Lines} \cup {<<a, b>> : a \in Lines, b \in Lines},
        n \in 0..MaxFill, nl \in BOOLEAN}

LongProgs ==
    {[lines |-> <<a>> \o Filler(MAX_LINES + d - 1), nl |-> nl] :
        a \in Lines, d \in (0 - LenSlack)..LenSlack, nl \in BOOLEAN}

Progs == ShortProgs \cup LongProgs

(***************************************************************************)
(* Python values.  A dict of actions is the sequence of its items, in      *)
(* insertion order, each [key, val] with val the record stored under key.  *)
(* An exception that leaves a function is Raise(exc, at); a returned       *)
(* value is Return(v).                                                     *)
(***************************************************************************)
Return(v)      == [kind |-> "return", value |-> v, exc |-> "", at |-> ""]
Raise(exc, at) == [kind |-> "raise", value |-> <<>>, exc |-> exc, at |-> at]
NoResult       == [kind |-> "none", value |-> <<>>, exc |-> "", at |-> ""]

\* A formatted message: the fixed text and the value formatted into it.
Msg(text, arg) == [text |-> text, arg |-> arg]

Keys(d) == {d[i].key : i \in DOMAIN d}

\* d[k] for k in d
Val(d, k) == d[CHOOSE i \in DOMAIN d : d[i].key = k].val

\* d[k] = v
DictSet(d, k, v) ==
    IF k \in Keys(d)
    THEN [i \in DOMAIN d |-> IF d[i].key = k THEN [key |-> k, val |-> v] ELSE d[i]]
    ELSE Append(d, [key |-> k, val |-> v])

\* A deletion that empties the dict.
DictClear(d, k) == <<>>

\* del d[k]
DictDel(d, k) == SelectSeq(d, LAMBDA it : it.key # k)

(***************************************************************************)
(* The backing document CUSTOM_ACTIONS_FILE.  kind is "absent" (no file),  *)
(* "json" (a JSON object; members are its members in file order, each a    *)
(* key and the name/value pairs of the object under it), "empty" (a file   *)
(* of length 0, as write_text leaves it between opening and writing),      *)
(* "badjson" (text that is not JSON) or "badutf8" (bytes that are not      *)
(* UTF-8).                                                                 *)
(***************************************************************************)
Absent        == [kind |-> "absent", members |-> <<>>]
EmptyFile     == [kind |-> "empty", members |-> <<>>]
BadJson       == [kind |-> "badjson", members |-> <<>>]
BadUtf8       == [kind |-> "badutf8", members |-> <<>>]
JsonDoc(ms)   == [kind |-> "json", members |-> ms]

FieldOrder == <<"id", "prompt", "code">>

\* json.dumps of one record: its fields as name/value pairs.
DumpRecord(r) ==
    LET present == SelectSeq(FieldOrder, LAMBDA n : n \in DOMAIN r)
    IN  [i \in DOMAIN present |-> <<present[i], r[present[i]]>>]

\* json.loads of one object: a later pair of the same name replaces an earlier one.
LoadRecord(fields) ==
    [n \in {fields[i][1] : i \in DOMAIN fields} |->
        fields[CHOOSE i \in DOMAIN fields :
                  /\ fields[i][1] = n
                  /\ \A j \in DOMAIN fields : fields[j][1] = n => j <= i][2]]

\* json.dumps(actions, indent=2)
Dumps(d) == [i \in DOMAIN d |-> [key |-> d[i].key, fields |-> DumpRecord(d[i].val)]]

\* json.loads(text) of a JSON object
RECURSIVE LoadsFrom(_, _)
LoadsFrom(members, acc) ==
    IF members = <<>> THEN acc
    ELSE LoadsFrom(Tail(members),
                   DictSet(acc, Head(members).key, LoadRecord(Head(members).fields)))

Loads(members) == LoadsFrom(members, <<>>)

(***************************************************************************)
(* llm_engine.py: persistence.                                             *)
(***************************************************************************)
\* load_custom_actions: exists(), read_text(encoding="utf-8"), json.loads;
\* JSONDecodeError and IOError are caught, UnicodeDecodeError is neither.
load_custom_actions(d) ==
    CASE d.kind = "absent"  -> Return(<<>>)
      [] d.kind = "json"    -> Return(Loads(d.members))
      [] d.kind = "empty"   -> Return(<<>>)
      [] d.kind = "badjson" -> Return(<<>>)
      [] d.kind = "badutf8" -> Raise("UnicodeDecodeError", "load_custom_actions")

\* A record stored without its id.
KeylessRecord(action_id, prompt, code) == [prompt |-> prompt, code |-> code]

\* The record save_custom_action stores under action_id.
ActionRecord(action_id, prompt, code) ==
    [id |-> action_id, prompt |-> prompt, code |-> code]

\* A save that starts from an empty dict instead of the loaded one.
SaveOnly(actions, action_id, prompt, code) ==
    DictSet(<<>>, action_id, ActionRecord(action_id, prompt, code))

\* A save that keeps the entry already stored under the id.
SaveIfNew(actions, action_id, prompt, code) ==
    IF action_id \in Keys(actions)
    THEN actions
    ELSE DictSet(actions, action_id, ActionRecord(action_id, prompt, code))

\* actions[action_id] = {...}: what save_custom_action writes, given what it loaded.
SaveUpdate(actions, action_id, prompt, code) ==
    DictSet(actions, action_id, ActionRecord(action_id, prompt, code))

\* A listing that returns the stored records whole.
ListWithCode(actions) == [i \in DOMAIN actions |-> actions[i].val]

\* list_custom_actions: the comprehension over actions.values().
ListItems(actions) ==
    [i \in DOMAIN actions |-> [id |-> actions[i].val.id, prompt |-> actions[i].val.prompt]]

(***************************************************************************)
(* llm_engine.py: generate_action_code.                                    *)
(***************************************************************************)
SetMax(S) == CHOOSE x \in S : \A y \in S : y <= x

\* str.strip()
RECURSIVE RStrip(_)
RStrip(s) ==
    IF s # <<>> /\ InClass(s[Len(s)], "space") THEN RStrip(SubSeq(s, 1, Len(s) - 1)) ELSE s

Strip(s) == RStrip(SubSeq(s, RunEnd(s, 1, "space"), Len(s)))

\* The markdown fence: three backquotes (the character is written "BQ" here).
Fence == <<"BQ","BQ","BQ">>

\* The pattern ^FENCE(?:python)?\s*\n? where FENCE is three backquotes.
LeadingFence == <<Bos, Lit(Fence), Opt(<<"p","y","t","h","o","n">>), Star("space"), Opt(<<"\n">>)>>

\* The pattern \n?FENCE\s*$
TrailingFence == <<Opt(<<"\n">>), Lit(Fence), Star("space"), Eos>>

\* re.sub of the leading fence: the greedy match at the start is removed.
SubLeadingFence(s) ==
    LET ends == MatchEnds(LeadingFence, 1, s, 1, FALSE)
    IN  IF ends = {} THEN s ELSE SubSeq(s, SetMax(ends), Len(s))

\* re.sub of the trailing fence: the leftmost match, which runs to the end, is removed.
SubTrailingFence(s) ==
    LET starts == {i \in 1..(Len(s) + 1) : MatchEnds(TrailingFence, 1, s, i, FALSE) # {}}
    IN  IF starts = {} THEN s
        ELSE LET i == SetMin(starts)
                 e == SetMax(MatchEnds(TrailingFence, 1, s, i, FALSE))
             IN  SubSeq(s, 1, i - 1) \o SubSeq(s, e, Len(s))

\* raw_code after the strip, the two re.sub and the second strip.
StripFences(text) == Strip(SubTrailingFence(SubLeadingFence(Strip(text))))

\* f"custom_{uuid.uuid4().hex[:8]}": the prefix and the hex digits.
MintId(hex) == <<"custom_", hex>>

NoVerdict == Verdict(FALSE, "none", 0, {})

\* The call of the external service: it raises, or it returns response.text.
ServiceError(e) == [ok |-> FALSE, text |-> <<>>, err |-> e]
ServiceText(x)  == [ok |-> TRUE, text |-> x, err |-> ""]

\* A generator that returns every candidate as an Action.
RejectsNothing(validation) == FALSE

\* if not validation["safe"]: the candidate is returned as an error, not as an Action.
Rejects(validation) == ~validation.safe

\* generate_action_code(prompt), given what the service did and the uuid drawn.
generate_action_code(prompt, outcome, hex) ==
    IF ~outcome.ok
    THEN [error |-> Msg("Gemini API error: ", outcome.err)]
    ELSE LET raw_code == StripFences(outcome.text)
             validation == validate_code(raw_code)
         IN  IF Rejects(validation)
             THEN [error |-> validation.reason, code |-> StrOf(raw_code)]
             ELSE [id |-> MintId(hex), prompt |-> prompt, code |-> StrOf(raw_code)]

(***************************************************************************)
(* exec(code, exec_globals): what running a text does.  A text that does   *)
(* not compile raises SyntaxError before anything runs; otherwise the      *)
(* first line that raises ends the run.                                    *)
(***************************************************************************)
EffectOfLine(chars) ==
    IF \E l \in Lines : LineText[l] = chars
    THEN LineEffect(CHOOSE l \in Lines : LineText[l] = chars)
    ELSE "ok"

Exec(code) ==
    LET lines == Split(code, "\n")
        eff == [i \in DOMAIN lines |-> EffectOfLine(lines[i])]
        bad == {i \in DOMAIN eff : eff[i] # "ok"}
    IN  IF \E i \in DOMAIN eff : eff[i] = "syntax"
        THEN [kind |-> "Exception", name |-> "SyntaxError"]
        ELSE IF bad = {} THEN [kind |-> "ok", name |-> ""]
        ELSE IF eff[SetMin(bad)] = "exit"
        THEN [kind |-> "BaseException", name |-> "SystemExit"]
        ELSE [kind |-> "Exception", name |-> "Error"]

\* except Exception as e: what the handler of execute_custom_action catches.
Caught(e) == e.kind = "Exception"

\* A safety net that lets every stored code through.
NeverRefuses(validation) == FALSE

\* if not validation["safe"]: execute_custom_action refuses to run the code.
Refuses(validation) == ~validation.safe

(***************************************************************************)
(* Inputs of the server model.                                             *)
(***************************************************************************)
HexIds  == {"0000000a", "0000000b"}
Ids     == {MintId(h) : h \in HexIds}

\* server.py KEY_MAP: the built-in commands (their key presses are not modelled).
KEY_MAP == {"next_tab", "prev_tab", "copy", "paste", "scroll_up", "scroll_down"}

\* The commands a client sends: the custom ids, a built-in one and an unknown one.
Commands == Ids \cup {<<"", "next_tab">>, <<"", "nope">>}

\* The scripts clients ask for and send: a prompt and the code for it.  One
\* is safe and runs, one is deny-listed, one passes the validator and raises
\* SystemExit, one passes the validator and does not compile.
Scripts ==
    {[prompt |-> "wait", code |-> "import time"],
     [prompt |-> "delete files", code |-> "os.remove(p)"],
     [prompt |-> "quit", code |-> "raise SystemExit"],
     [prompt |-> "broken", code |-> "x = ("]}

Prompts == {sc.prompt : sc \in Scripts}

CodeFor(prompt) == (CHOOSE sc \in Scripts : sc.prompt = prompt).code

\* The code an edit from outside puts in place of a stored one.
TamperCodes == {"os.remove(p)"}

\* What the external service answers: plain code, or code inside a fence.
Fenced(text) == Fence \o <<"p","y","t","h","o","n","\n">> \o text \o <<"\n">> \o Fence \o <<"\n">>

\* The service is unreachable, or it answers the script for the prompt, plain
\* or inside a fence.
ServiceOutcomes(prompt) ==
    {ServiceError("unreachable"),
     ServiceText(Chars(CodeFor(prompt))),
     ServiceText(Fenced(Chars(CodeFor(prompt))))}

\* validate_code and exec over the texts of the server model, tabulated: both
\* are pure functions of the text.
Texts == Lines \cup {""}

ValidateTable == [str \in Texts |-> validate_code(Chars(str))]

ExecTable == [str \in Texts |-> Exec(Chars(str))]

\* generate_action_code over the prompts, the answers of the service and the
\* uuids drawn, tabulated likewise.
GenerateTable ==
    [prompt \in Prompts |->
        [outcome \in ServiceOutcomes(prompt) |->
            [hex \in HexIds |-> generate_action_code(prompt, outcome, hex)]]]

\* The requests in flight: one from an HTTP client, which sends its next
\* request when the last one was answered, and one from a websocket
\* connection, whose handler awaits each command's result before it receives
\* the next.  Generation and execution touch the document at one point each
\* (not at all, and the load), so more requests of a kind in flight add no
\* interleaving of document accesses beyond the ones of these two.
Tasks == {"http", "ws"}

NoId  == <<"", "">>
NoReq == [op |-> "none", id |-> NoId, prompt |-> "", code |-> ""]
NoLoc == [loaded |-> <<>>, actions |-> <<>>, resp |-> ServiceError(""), gen |-> <<>>,
          action |-> <<>>, code |-> "", validation |-> NoVerdict, out |-> NoResult]

VARIABLES prog, vcode, verdict

vvars == <<prog, vcode, verdict>>

VARIABLES
    doc,    \* the backing document CUSTOM_ACTIONS_FILE
    pc,     \* pc[t]: where request t is
    req,    \* req[t]: the request: operation and arguments
    loc,    \* loc[t]: the local variables of the functions running for t
    res,    \* res[t]: what the caller of t got: a returned value or an exception
    loop    \* the request that holds the event loop in a synchronous section, or "none"

svars == <<doc, pc, req, loc, res, loop>>
vars  == <<doc, pc, req, loc, res, loop, prog, vcode, verdict>>

VIdle ==
    /\ prog = [lines |-> <<>>, nl |-> FALSE]
    /\ vcode = <<>>
    /\ verdict = NoVerdict

SIdle ==
    /\ doc = Absent
    /\ pc = [t \in Tasks |-> "idle"]
    /\ req = [t \in Tasks |-> NoReq]
    /\ loc = [t \in Tasks |-> NoLoc]
    /\ res = [t \in Tasks |-> NoResult]
    /\ loop = "none"

Init == SIdle /\ VIdle

\* The event loop can start or resume the coroutine of a request in slot t.
Free(t)     == pc[t] \in {"idle", "done"}
LoopIdle    == loop = "none"

\* Request t ends: its caller gets r.
Finish(t, r) ==
    /\ pc' = [pc EXCEPT ![t] = "done"]
    /\ res' = [res EXCEPT ![t] = r]

\* The locals of t are dead.
Drop(t) == loc' = [loc EXCEPT ![t] = NoLoc]

Begin(t, r) ==
    /\ req' = [req EXCEPT ![t] = r]

\* The request was answered: its body is gone, its operation and id stay on record.
Answered(r) == [NoReq EXCEPT !.op = r.op, !.id = r.id]

Forget(t) == req' = [req EXCEPT ![t] = Answered(req[t])]

(***************************************************************************)
(* llm_engine.py save_custom_action and delete_custom_action, step by      *)
(* step: the load, then write_text, which opens (and so truncates) the     *)
(* file and then writes the text.                                          *)
(***************************************************************************)
\* save_custom_action(action_id, prompt, code) up to the call of write_text.
\* own: the caller holds the event loop until the function returns.
SaveLoad(t, rq, action_id, prompt, code, own) ==
    LET r == load_custom_actions(doc)
    IN  IF r.kind = "raise"
        THEN /\ Finish(t, r)
             /\ Begin(t, Answered(rq))
             /\ Drop(t)
             /\ loop' = "none"
        ELSE /\ pc' = [pc EXCEPT ![t] = "write_open"]
             /\ Begin(t, rq)
             /\ loc' = [loc EXCEPT ![t] = [NoLoc EXCEPT
                          !.loaded = r.value,
                          !.actions = SaveUpdate(r.value, action_id, prompt, code),
                          !.gen = loc[t].gen]]
             /\ res' = [res EXCEPT ![t] = NoResult]
             /\ loop' = IF own THEN t ELSE loop

\* What the handler returns once save_custom_action returned {"status": "ok", "id": ...}.
SaveResult(t) ==
    IF req[t].op = "auto"
    THEN [status |-> "ok", id |-> loc[t].gen.id, prompt |-> loc[t].gen.prompt,
          message |-> Msg("Action created successfully!", loc[t].gen.prompt)]
    ELSE [status |-> "ok", id |-> req[t].id]

\* write_text: open(mode "w") truncates the file.
WriteOpen(t) ==
    /\ pc[t] = "write_open"
    /\ doc' = EmptyFile
    /\ pc' = [pc EXCEPT ![t] = "write_text"]
    /\ UNCHANGED <<req, loc, res, loop, vvars>>

\* write_text: the text json.dumps(actions, indent=2) is written; the function returns.
WriteText(t) ==
    /\ pc[t] = "write_text"
    /\ doc' = JsonDoc(Dumps(loc[t].actions))
    /\ Finish(t, Return(IF req[t].op = "delete" THEN [status |-> "ok"] ELSE SaveResult(t)))
    /\ loop' = IF loop = t THEN "none" ELSE loop
    /\ Drop(t)
    /\ Forget(t)
    /\ UNCHANGED vvars

(***************************************************************************)
(* server.py: the REST handlers.                                           *)
(***************************************************************************)
\* POST /api/approve-action: save_custom_action(req.id, req.prompt, req.code)
Approve(t) ==
    \E id \in Ids, sc \in Scripts :
        /\ Free(t) /\ LoopIdle
        /\ SaveLoad(t, [op |-> "approve", id |-> id, prompt |-> sc.prompt, code |-> sc.code],
                    id, sc.prompt, sc.code, TRUE)
        /\ UNCHANGED <<doc, vvars>>

\* POST /api/delete-action: delete_custom_action(req.id) up to the call of write_text.
Delete(t) ==
    \E id \in Ids :
        /\ Free(t) /\ LoopIdle
        /\ Begin(t, [NoReq EXCEPT !.op = "delete", !.id = id])
        /\ LET r == load_custom_actions(doc)
           IN  IF r.kind = "raise"
               THEN Finish(t, r) /\ loc' = [loc EXCEPT ![t] = NoLoc] /\ loop' = "none"
               ELSE IF id \in Keys(r.value)
               THEN /\ pc' = [pc EXCEPT ![t] = "write_open"]
                    /\ loc' = [loc EXCEPT ![t] = [NoLoc EXCEPT
                                 !.loaded = r.value, !.actions = DictDel(r.value, id)]]
                    /\ res' = [res EXCEPT ![t] = NoResult]
                    /\ loop' = t
               ELSE /\ Finish(t, Return([status |-> "error",
                                         message |-> Msg("Action not found", "")]))
                    /\ loc' = [loc EXCEPT ![t] = NoLoc]
                    /\ loop' = "none"
        /\ UNCHANGED <<doc, vvars>>

\* GET /api/custom-actions: {"actions": list_custom_actions()}
List(t) ==
    /\ Free(t) /\ LoopIdle
    /\ Begin(t, [NoReq EXCEPT !.op = "list"])
    /\ LET r == load_custom_actions(doc)
       IN  /\ loc' = [loc EXCEPT ![t] = NoLoc]
           /\ IF r.kind = "raise" THEN Finish(t, r)
              ELSE IF \E i \in DOMAIN r.value : ~({"id", "prompt"} \subseteq DOMAIN r.value[i].val)
              THEN Finish(t, Raise("KeyError", "list_custom_actions"))
              ELSE Finish(t, Return([actions |-> ListItems(r.value)]))
    /\ UNCHANGED <<doc, loop, vvars>>

\* POST /api/create-action and /api/create-action-auto: the request is
\* accepted and generate_action_code is handed to the executor.
CreateAccept(t) ==
    \E op \in {"create", "auto"}, prompt \in Prompts :
        /\ Free(t) /\ LoopIdle
        /\ Begin(t, [NoReq EXCEPT !.op = op, !.prompt = prompt])
        /\ pc' = [pc EXCEPT ![t] = "gen"]
        /\ loc' = [loc EXCEPT ![t] = NoLoc]
        /\ res' = [res EXCEPT ![t] = NoResult]
        /\ UNCHANGED <<doc, loop, vvars>>

\* On a worker thread: generate_action_code(req.prompt).
Generate(t) ==
    /\ pc[t] = "gen"
    /\ \E outcome \in ServiceOutcomes(req[t].prompt), hex \in HexIds :
        /\ loc' = [loc EXCEPT ![t].resp = outcome,
                              ![t].gen = GenerateTable[req[t].prompt][outcome][hex]]
        /\ pc' = [pc EXCEPT ![t] = "gen_done"]
        /\ UNCHANGED <<doc, req, res, loop, vvars>>

\* create_action resumes on the event loop: return result
CreateReturn(t) ==
    /\ pc[t] = "gen_done" /\ req[t].op = "create" /\ LoopIdle
    /\ Finish(t, Return(loc[t].gen))
    /\ Drop(t)
    /\ Forget(t)
    /\ UNCHANGED <<doc, loop, vvars>>

\* if "error" in result: create_action_auto returns the error and saves nothing.
AutoFails(result) == "error" \in DOMAIN result

\* create_action_auto resumes on the event loop: the error is returned, or
\* save_custom_action(result["id"], result["prompt"], result["code"]) starts.
AutoResume(t) ==
    /\ pc[t] = "gen_done" /\ req[t].op = "auto" /\ LoopIdle
    /\ IF AutoFails(loc[t].gen)
       THEN /\ Finish(t, Return([status |-> "error", message |-> loc[t].gen.error]))
            /\ Drop(t)
            /\ Forget(t)
            /\ UNCHANGED loop
       ELSE SaveLoad(t, req[t], loc[t].gen.id, loc[t].gen.prompt, loc[t].gen.code, TRUE)
    /\ UNCHANGED <<doc, vvars>>

(***************************************************************************)
(* server.py websocket_endpoint and execute_action; llm_engine.py          *)
(* execute_custom_action, on a worker thread.                              *)
(***************************************************************************)
\* A gesture command message is received; execute_action goes to the executor.
WsAccept(t) ==
    \E command \in Commands :
        /\ Free(t) /\ LoopIdle
        /\ Begin(t, [NoReq EXCEPT !.op = "ws", !.id = command])
        /\ pc' = [pc EXCEPT ![t] = "exec_call"]
        /\ loc' = [loc EXCEPT ![t] = NoLoc]
        /\ res' = [res EXCEPT ![t] = NoResult]
        /\ UNCHANGED <<doc, loop, vvars>>

\* The function returned r; the result waits for the event loop to send it.
Hand(t, r) ==
    /\ pc' = [pc EXCEPT ![t] = "ws_send"]
    /\ loc' = [loc EXCEPT ![t] = [NoLoc EXCEPT !.out = r]]
    /\ UNCHANGED res

\* command.startswith("custom_")
IsCustom(command) == command[1] = "custom_"

\* execute_action(command): a custom id goes to execute_custom_action, which
\* loads the registry and looks the action up; a built-in command presses keys.
ExecCall(t) ==
    /\ pc[t] = "exec_call"
    /\ LET command == req[t].id
           r == load_custom_actions(doc)
       IN  IF IsCustom(command)
           THEN IF r.kind = "raise"
                THEN Finish(t, r) /\ Drop(t)
                ELSE IF command \notin Keys(r.value) \/ DOMAIN Val(r.value, command) = {}
                THEN Hand(t, Return([status |-> "error",
                                     message |-> Msg("Custom action not found: ", command)]))
                ELSE /\ pc' = [pc EXCEPT ![t] = "exec_validate"]
                     /\ loc' = [loc EXCEPT ![t].action = Val(r.value, command),
                                           ![t].code = IF "code" \in DOMAIN Val(r.value, command)
                                                       THEN Val(r.value, command).code
                                                       ELSE ""]
                     /\ UNCHANGED res
           ELSE IF command[2] \notin KEY_MAP
                THEN Hand(t, Return([status |-> "error",
                                     message |-> Msg("Unknown command: ", command)]))
                ELSE \E pressed \in BOOLEAN :
                        Hand(t, Return(IF pressed
                                       THEN [status |-> "ok", action |-> command[2]]
                                       ELSE [status |-> "error", message |-> Msg("pyautogui", "")]))
    /\ UNCHANGED <<doc, req, loop, vvars>>

\* Re-validate before execution (safety net)
ExecValidate(t) ==
    /\ pc[t] = "exec_validate"
    /\ LET validation == ValidateTable[loc[t].code]
       IN  IF Refuses(validation)
           THEN /\ pc' = [pc EXCEPT ![t] = "ws_send"]
                /\ loc' = [loc EXCEPT
                      ![t] = [NoLoc EXCEPT !.out = Return([status |-> "error",
                                         message |-> Msg("Action failed safety check: ",
                                                         validation.reason)])]]
           ELSE /\ pc' = [pc EXCEPT ![t] = "exec_run"]
                /\ loc' = [loc EXCEPT ![t].validation = validation]
    /\ UNCHANGED <<doc, req, res, loop, vvars>>

\* exec(code, exec_globals) inside try / except Exception
ExecRun(t) ==
    /\ pc[t] = "exec_run"
    /\ LET e == ExecTable[loc[t].code]
       IN  IF e.kind = "ok"
           THEN IF "prompt" \in DOMAIN loc[t].action
                THEN Hand(t, Return([status |-> "ok", action |-> loc[t].action.prompt]))
                ELSE Hand(t, Return([status |-> "error", message |-> Msg("KeyError", "prompt")]))
           ELSE IF Caught(e)
           THEN Hand(t, Return([status |-> "error", message |-> Msg(e.name, "")]))
           ELSE Finish(t, Raise(e.name, "exec")) /\ Drop(t)
    /\ UNCHANGED <<doc, req, loop, vvars>>

\* websocket_endpoint resumes on the event loop: await ws.send_json(result)
WsSend(t) ==
    /\ pc[t] = "ws_send" /\ LoopIdle
    /\ Finish(t, loc[t].out)
    /\ Drop(t)
    /\ UNCHANGED <<doc, req, loop, vvars>>

(***************************************************************************)
(* Edits of the document from outside the pipeline.                        *)
(***************************************************************************)
SetField(fields, name, value) ==
    [i \in DOMAIN fields |-> IF fields[i][1] = name THEN <<name, value>> ELSE fields[i]]

\* The code stored under one key is replaced.
EnvTamper ==
    /\ doc.kind = "json"
    /\ \E i \in DOMAIN doc.members, code \in TamperCodes :
          /\ doc' = JsonDoc([doc.members EXCEPT ![i].fields = SetField(@, "code", code)])
          /\ doc' # doc
    /\ UNCHANGED <<pc, req, loc, res, loop, vvars>>

\* The file is removed, or overwritten with something that is not the JSON mapping.
EnvCorrupt ==
    /\ doc' \in {Absent, BadJson, BadUtf8}
    /\ doc' # doc
    /\ UNCHANGED <<pc, req, loc, res, loop, vvars>>

\* The registry handlers, which run on the event loop from start to end.
Registry ==
    \/ Approve("http")
    \/ Delete("http")
    \/ List("http")
    \/ WriteOpen("http")
    \/ WriteText("http")

\* The generation handlers: the call of the service is on a worker thread.
Generation ==
    \/ CreateAccept("http")
    \/ Generate("http")
    \/ CreateReturn("http")
    \/ AutoResume("http")

\* The websocket connection: execute_action is on a worker thread.
Ws ==
    \/ WsAccept("ws")
    \/ ExecCall("ws")
    \/ ExecValidate("ws")
    \/ ExecRun("ws")
    \/ WsSend("ws")

NextRegistry == Registry
NextExecute  ==
    \/ Approve("http") \/ Delete("http") \/ WriteOpen("http") \/ WriteText("http")
    \/ Generation \/ Ws \/ EnvTamper
NextGenerate == Generation \/ WriteOpen("http") \/ WriteText("http") \/ Ws
NextCorrupt  == Registry \/ Ws \/ EnvCorrupt
Next         == Registry \/ Generation \/ Ws \/ EnvTamper \/ EnvCorrupt

\* The server, with the document open to edits from outside.
Spec == Init /\ [][Next]_vars

\* The registry operations alone, one after the other.
SpecRegistry == Init /\ [][NextRegistry]_vars

\* Actions are generated, saved, approved, deleted and executed while stored
\* code is replaced from outside.
SpecExecute == Init /\ [][NextExecute]_vars

\* Generation, with and without saving, and the execution of what was saved.
SpecGenerate == Init /\ [][NextGenerate]_vars

\* The registry and execution over a document that is removed or corrupted.
SpecCorrupt == Init /\ [][NextCorrupt]_vars

(***************************************************************************)
(* Two callers of save_custom_action on threads of their own, each with    *)
(* an id of its own, against the registry as it is at the start.  The      *)
(* function takes no lock: its load and the two steps of its write_text    *)
(* interleave with the other caller's.                                     *)
(***************************************************************************)
SaveCall(t) ==
    \E id \in Ids, sc \in Scripts :
        /\ pc[t] = "idle"
        /\ \A u \in Tasks \ {t} : req[u].id # id
        /\ SaveLoad(t, [op |-> "save", id |-> id, prompt |-> sc.prompt, code |-> sc.code],
                    id, sc.prompt, sc.code, FALSE)
        /\ UNCHANGED <<doc, vvars>>

NextConcSave ==
    \/ SaveCall("http") \/ WriteOpen("http") \/ WriteText("http")
    \/ SaveCall("ws") \/ WriteOpen("ws") \/ WriteText("ws")

SpecConcSave == Init /\ [][NextConcSave]_vars

(***************************************************************************)
(* The validator alone: one input text, one call of validate_code.         *)
(***************************************************************************)
InitValidate ==
    /\ SIdle
    /\ prog \in Progs
    /\ vcode = Text(prog)
    /\ verdict = NoVerdict

Validate ==
    /\ verdict = NoVerdict
    /\ verdict' = validate_code(vcode)
    /\ UNCHANGED <<prog, vcode, svars>>

NextValidate == Validate

SpecValidate == InitValidate /\ [][NextValidate]_vars

(***************************************************************************)
(* Properties of execution.                                                *)
(***************************************************************************)
SafetyCheckError(reason) ==
    Return([status |-> "error", message |-> Msg("Action failed safety check: ", reason)])

\* C1: execute_custom_action runs a code text only if validate_code returned
\* safe on that very text, which it loaded in the same call; a stored code
\* that fails validate_code is answered with an error result that carries
\* the validation reason, and is not run.
ExecuteOnlyValidated ==
    [][\A t \in Tasks :
          /\ (pc[t] = "exec_call" /\ pc'[t] = "exec_validate")
                => LET r == load_custom_actions(doc)
                   IN  /\ r.kind = "return"
                       /\ req[t].id \in Keys(r.value)
                       /\ loc'[t].action = Val(r.value, req[t].id)
                       /\ loc'[t].code = Val(r.value, req[t].id).code
          /\ (pc[t] # "exec_run" /\ pc'[t] = "exec_run")
                => /\ pc[t] = "exec_validate"
                   /\ loc'[t].code = loc[t].code
                   /\ ValidateTable[loc[t].code].safe
          /\ (pc[t] = "exec_validate" /\ pc'[t] # "exec_validate"
                                      /\ ~ValidateTable[loc[t].code].safe)
                => /\ pc'[t] = "ws_send"
                   /\ loc'[t].out = SafetyCheckError(ValidateTable[loc[t].code].reason)
          /\ (pc[t] = "ws_send" /\ pc'[t] = "done") => res'[t] = loc[t].out
      ]_vars

\* The execution of a stored code that matches a deny-listed pattern was refused.
RefusedAtExecution ==
    \E t \in Tasks :
        /\ pc[t] = "done" /\ req[t].op = "ws"
        /\ res[t].kind = "return"
        /\ "message" \in DOMAIN res[t].value
        /\ res[t].value.message.text = "Action failed safety check: "
        /\ res[t].value.message.arg.text = "Blocked dangerous pattern: "

\* C8: no failure of the executed code leaves execute_custom_action: every
\* one is caught and returned as an error result.
ExecuteNeverRaises ==
    \A t \in Tasks : ~(res[t].kind = "raise" /\ res[t].at = "exec")

(***************************************************************************)
(* Properties of the registry.                                             *)
(***************************************************************************)
\* C2: every Action stored in the registry has a code on which
\* validate_code returns safe.
StoredCodeSafe ==
    LET r == load_custom_actions(doc)
    IN  r.kind = "return" =>
            \A k \in Keys(r.value) :
                "code" \in DOMAIN Val(r.value, k) => ValidateTable[Val(r.value, k).code].safe

\* C3: when two concurrent calls of save_custom_action for different ids,
\* started against an empty registry, have both returned, the registry
\* loaded holds both ids.
BothSavesKept ==
    (\A t \in Tasks : pc[t] = "done" /\ req[t].op = "save")
        => LET r == load_custom_actions(doc)
           IN  /\ r.kind = "return"
               /\ \A t \in Tasks : req[t].id \in Keys(r.value)

\* C4: save(id, p, c) on a registry that loads as M, followed by a load,
\* gives M with the entry at id set to {id, prompt: p, code: c} and every
\* other entry of M unchanged.
SaveRoundTrip ==
    [][\A t \in Tasks :
          /\ (Free(t) /\ req'[t].op = "approve" /\ pc'[t] = "write_open")
                => loc'[t].loaded = load_custom_actions(doc).value
          /\ (pc[t] = "write_text" /\ pc'[t] = "done" /\ req[t].op = "approve")
                => LET M == loc[t].loaded
                       after == load_custom_actions(doc')
                   IN  /\ after.kind = "return"
                       /\ Keys(after.value) = Keys(M) \cup {req[t].id}
                       /\ Val(after.value, req[t].id) =
                              [id |-> req[t].id, prompt |-> req[t].prompt, code |-> req[t].code]
                       /\ \A k \in Keys(M) \ {req[t].id} : Val(after.value, k) = Val(M, k)
                       /\ res'[t] = Return([status |-> "ok", id |-> req[t].id])
      ]_vars

\* A save returned and the registry holds its entry beside an earlier one.
SavedBesideOther ==
    \E t \in Tasks :
        /\ pc[t] = "done" /\ req[t].op = "approve" /\ res[t].kind = "return"
        /\ LET r == load_custom_actions(doc)
           IN  r.kind = "return" /\ req[t].id \in Keys(r.value)
                                 /\ Cardinality(Keys(r.value)) = 2

\* The step of request t is a call of delete_custom_action.
DeleteStarts(t) ==
    /\ Free(t) /\ req'[t].op = "delete"
    /\ <<pc[t], req[t], res[t]>>' # <<pc[t], req[t], res[t]>>

\* C5: delete_custom_action on an id that is not in the registry reports
\* "Action not found" and leaves the document as it is; on an id in the
\* registry it reports ok, removes that entry and leaves every other one
\* unchanged.
DeleteFrame ==
    [][\A t \in Tasks :
          /\ DeleteStarts(t)
                => LET r == load_custom_actions(doc)
                   IN  r.kind = "return" =>
                         IF req'[t].id \in Keys(r.value)
                         THEN pc'[t] = "write_open" /\ loc'[t].loaded = r.value
                         ELSE /\ pc'[t] = "done"
                              /\ doc' = doc
                              /\ res'[t] = Return([status |-> "error",
                                                   message |-> Msg("Action not found", "")])
          /\ (pc[t] = "write_text" /\ pc'[t] = "done" /\ req[t].op = "delete")
                => LET M == loc[t].loaded
                       after == load_custom_actions(doc')
                   IN  /\ after.kind = "return"
                       /\ Keys(after.value) = Keys(M) \ {req[t].id}
                       /\ \A k \in Keys(after.value) : Val(after.value, k) = Val(M, k)
                       /\ res'[t] = Return([status |-> "ok"])
      ]_vars

\* A delete returned ok and the registry still holds the other entry.
DeletedOneOfTwo ==
    \E t \in Tasks :
        /\ pc[t] = "done" /\ req[t].op = "delete"
        /\ res[t] = Return([status |-> "ok"])
        /\ LET r == load_custom_actions(doc)
           IN  r.kind = "return" /\ Cardinality(Keys(r.value)) = 1

\* C9: load_custom_actions never raises, whatever the document holds.
LoadNeverRaises == load_custom_actions(doc).kind # "raise"

(***************************************************************************)
(* Properties of validate_code.                                            *)
(***************************************************************************)
\* The modules the statements of a program import.
Imported(p) == UNION {LineImports(p.lines[i]) : i \in DOMAIN p.lines}

\* C6: code that imports a module outside the allow-list, in any form of
\* import statement, and matches no deny-listed pattern is rejected with
\* the reason that cites the disallowed modules.
DisallowedImportsRejected ==
    (/\ verdict # NoVerdict
     /\ Imported(prog) \ ALLOWED_IMPORTS # {}
     /\ BlockedHits(vcode) = {})
        => /\ ~verdict.safe
           /\ verdict.reason.text = "Disallowed imports: "
           /\ (Imported(prog) \ ALLOWED_IMPORTS) \subseteq verdict.reason.names

\* C7: code whose imports are allowed, that matches no deny-listed pattern
\* and has at most 50 lines, a final newline included, is safe.
ShortAllowedCodeSafe ==
    (/\ verdict # NoVerdict
     /\ Imported(prog) \subseteq ALLOWED_IMPORTS
     /\ BlockedHits(vcode) = {}
     /\ Len(prog.lines) <= MAX_LINES)
        => verdict.safe

(***************************************************************************)
(* Properties of generation.                                               *)
(***************************************************************************)
GenerationError(e) == [error |-> Msg("Gemini API error: ", e)]

\* The step of request t returns from its handler after generate_action_code.
GenerateReturns(t) == pc[t] = "gen_done" /\ pc'[t] = "done"

\* C10 as amended: generation never changes the registry and generate-and-save
\* writes it only with a candidate that passed validate_code; a rejected
\* candidate is neither persisted nor executed.  On a rejection, generate
\* returns the reason with the raw candidate and generate-and-save an error
\* status with the reason alone; on a failure of the service, both return
\* the generation error without a candidate.
GenerateContract ==
    [][\A t \in Tasks :
          /\ (doc' # doc)
                => \E u \in Tasks :
                      /\ req[u].op = "auto" /\ pc[u] \in {"write_open", "write_text"}
                      /\ "error" \notin DOMAIN loc[u].gen
                      /\ loc[u].gen.code = CodeFor(req[u].prompt)
                      /\ ValidateTable[loc[u].gen.code].safe
          /\ (pc'[t] = "exec_run") => ValidateTable[loc'[t].code].safe
          /\ GenerateReturns(t)
                => LET cand == CodeFor(req[t].prompt)
                       v == ValidateTable[cand]
                       o == loc[t].resp
                   IN  IF req[t].op = "create"
                       THEN res'[t] = Return(
                               IF ~o.ok THEN GenerationError(o.err)
                               ELSE IF ~v.safe THEN [error |-> v.reason, code |-> cand]
                               ELSE [id |-> loc[t].gen.id, prompt |-> req[t].prompt,
                                     code |-> cand])
                       ELSE /\ ~o.ok \/ ~v.safe
                            /\ res'[t] = Return(
                                  [status |-> "error",
                                   message |-> IF ~o.ok THEN GenerationError(o.err).error
                                               ELSE v.reason])
      ]_vars

\* Generate-and-save answered a rejected candidate with the reason alone.
AutoRejected ==
    \E t \in Tasks :
        /\ pc[t] = "done" /\ req[t].op = "auto"
        /\ res[t].kind = "return"
        /\ res[t].value.status = "error"
        /\ res[t].value.message.text = "Blocked dangerous pattern: "
        /\ doc = Absent

\* C10: on a validation rejection the caller of generate, and of
\* generate-and-save, gets the reason together with the raw candidate.
RejectionCarriesCandidate ==
    [][\A t \in Tasks :
          (/\ GenerateReturns(t)
           /\ loc[t].resp.ok
           /\ ~ValidateTable[CodeFor(req[t].prompt)].safe)
              => /\ res'[t].kind = "return"
                 /\ "code" \in DOMAIN res'[t].value
                 /\ res'[t].value.code = CodeFor(req[t].prompt)
      ]_vars

(***************************************************************************)
(* Properties of one call of execute_custom_action and of the event loop.  *)
(***************************************************************************)
NotFoundError(command) ==
    Return([status |-> "error", message |-> Msg("Custom action not found: ", command)])

\* r is a result {"status": "error", "message": ...}.
IsErrorResult(r) ==
    /\ r.kind = "return"
    /\ DOMAIN r.value = {"status", "message"}
    /\ r.value.status = "error"

\* C11: a call of execute for a custom id goes Requested -> Loaded ->
\* Revalidated -> (Rejected | Running) -> (Completed | Failed) and visits no
\* state twice: an unknown id ends in the not-found error without
\* validation or execution, a failed re-validation ends in the safety-check
\* error without execution, and a started execution ends with status ok and
\* the Action's prompt or with status error and the failure message.
ExecuteSingleAttempt ==
    [][\A t \in Tasks :
          /\ (pc[t] = "exec_call" /\ IsCustom(req[t].id) /\ pc'[t] # "exec_call")
                => LET r == load_custom_actions(doc)
                   IN  IF r.kind = "return" /\ req[t].id \in Keys(r.value)
                       THEN pc'[t] = "exec_validate"
                       ELSE pc'[t] = "ws_send" /\ loc'[t].out = NotFoundError(req[t].id)
          /\ (pc[t] = "exec_validate" /\ pc'[t] # "exec_validate")
                => \/ pc'[t] = "exec_run"
                   \/ pc'[t] = "ws_send" /\ IsErrorResult(loc'[t].out)
          /\ (pc[t] = "exec_run" /\ pc'[t] # "exec_run")
                => /\ pc'[t] = "ws_send"
                   /\ \/ loc'[t].out = Return([status |-> "ok",
                                               action |-> loc[t].action.prompt])
                      \/ IsErrorResult(loc'[t].out)
          /\ (pc[t] = "ws_send" /\ pc'[t] # "ws_send")
                => pc'[t] = "done" /\ res'[t] = loc[t].out
      ]_vars

\* C12: no invocation of generate, save, delete or execute in progress keeps
\* an unrelated request from completing: no request holds the event loop
\* while the result a worker produced for another request waits for the
\* loop to deliver it.
NothingBlocksOthers ==
    \A t \in Tasks :
        loop = t => \A u \in Tasks \ {t} : pc[u] \notin {"gen_done", "ws_send"}

(***************************************************************************)
(* Properties of list_custom_actions.                                      *)
(***************************************************************************)
\* The step of request t is a call of GET /api/custom-actions.
ListStarts(t) ==
    /\ Free(t) /\ req'[t].op = "list"
    /\ <<pc[t], req[t], res[t]>>' # <<pc[t], req[t], res[t]>>

\* C13: list returns one item {id, prompt} for every Action of the registry
\* and for no other, no item has a code field, and the document is left as
\* it is.
ListShowsRegistry ==
    [][\A t \in Tasks :
          ListStarts(t)
             => LET r == load_custom_actions(doc)
                IN  r.kind = "return"
                      => /\ doc' = doc
                         /\ pc'[t] = "done"
                         /\ res'[t].kind = "return"
                         /\ LET items == res'[t].value.actions
                            IN  /\ Len(items) = Cardinality(Keys(r.value))
                                /\ {items[i].id : i \in DOMAIN items} = Keys(r.value)
                                /\ \A i \in DOMAIN items :
                                      /\ DOMAIN items[i] = {"id", "prompt"}
                                      /\ items[i].prompt = Val(r.value, items[i].id).prompt
      ]_vars

\* A listing of a registry of two Actions was returned.
ListedTwo ==
    \E t \in Tasks :
        /\ pc[t] = "done" /\ req[t].op = "list" /\ res[t].kind = "return"
        /\ Len(res[t].value.actions) = 2
        /\ load_custom_actions(doc).kind = "return"
        /\ Cardinality(Keys(load_custom_actions(doc).value)) = 2

(***************************************************************************)
(* The order of the checks of validate_code.                               *)
(***************************************************************************)
\* C14: the deny-list scan, the import allow-list and the length bound are
\* applied in this order and the first that fails gives the reason: code
\* with a deny-listed construct gets the reason of the first matching
\* pattern, code without one that imports a disallowed module gets the
\* import reason, and the length reason is given only to code that passes
\* both.
FirstFailingCheckWins ==
    verdict # NoVerdict
       => LET hits == BlockedHits(vcode)
              bad == Imported(prog) \ ALLOWED_IMPORTS
          IN  /\ hits # {}
                    => /\ ~verdict.safe
                       /\ verdict.reason.text = "Blocked dangerous pattern: "
                       /\ verdict.reason.pattern = SetMin(hits)
              /\ (hits = {} /\ bad # {})
                    => /\ ~verdict.safe
                       /\ verdict.reason.text = "Disallowed imports: "
              /\ verdict.reason.text = "Code too long (max 50 lines)"
                    => hits = {} /\ bad = {}

(***************************************************************************)
(* Minted identifiers.                                                     *)
(***************************************************************************)
\* C15: generate-and-save saves under the minted id whether or not the
\* registry holds it: the entry at that id becomes the new Action, with
\* its prompt and code, every other entry stays as it was, and ok is
\* reported.
MintedIdOverwrites ==
    [][\A t \in Tasks :
          /\ (pc[t] = "gen_done" /\ req[t].op = "auto" /\ pc'[t] = "write_open")
                => loc'[t].loaded = load_custom_actions(doc).value
          /\ (pc[t] = "write_text" /\ pc'[t] = "done" /\ req[t].op = "auto")
                => LET M == loc[t].loaded
                       g == loc[t].gen
                       after == load_custom_actions(doc')
                   IN  /\ after.kind = "return"
                       /\ Keys(after.value) = Keys(M) \cup {g.id}
                       /\ Val(after.value, g.id) =
                              [id |-> g.id, prompt |-> g.prompt, code |-> g.code]
                       /\ \A k \in Keys(M) \ {g.id} : Val(after.value, k) = Val(M, k)
                       /\ res'[t].kind = "return"
                       /\ res'[t].value.status = "ok"
                       /\ res'[t].value.id = g.id
      ]_vars

\* Generate-and-save is saving under a minted id that the registry holds
\* for an Action of another prompt.
MintedIdCollides ==
    \E t \in Tasks :
        /\ pc[t] = "write_text" /\ req[t].op = "auto"
        /\ loc[t].gen.id \in Keys(loc[t].loaded)
        /\ Val(loc[t].loaded, loc[t].gen.id).prompt # loc[t].gen.prompt
        /\ Cardinality(Keys(loc[t].loaded)) = 2

(***************************************************************************)
(* The pipeline alone: every handler of the server, and no edit of the     *)
(* document from outside.                                                  *)
(***************************************************************************)
NextPipeline == Registry \/ Generation \/ Ws

SpecPipeline == Init /\ [][NextPipeline]_vars

\* r is the failure of a lookup of a field that a record does not have.
IsKeyError(r) ==
    \/ r.kind = "raise" /\ r.exc = "KeyError"
    \/ /\ r.kind = "return"
       /\ "message" \in DOMAIN r.value
       /\ r.value.message.text = "KeyError"

\* C16: from an absent document, through save, approve, generate-and-save
\* and delete only, each record stored under key k has exactly the fields
\* id, prompt and code, with id = k; list returns exactly the keys as ids
\* and no call fails for a missing field.
RecordsWellFormed ==
    LET r == load_custom_actions(doc)
    IN  /\ r.kind = "return"
        /\ doc.kind = "json"
              => \A i \in DOMAIN doc.members :
                    [j \in DOMAIN doc.members[i].fields |-> doc.members[i].fields[j][1]]
                        = FieldOrder
        /\ \A k \in Keys(r.value) :
              /\ DOMAIN Val(r.value, k) = {"id", "prompt", "code"}
              /\ Val(r.value, k).id = k
        /\ \A t \in Tasks :
              /\ ~IsKeyError(res[t])
              /\ ~IsKeyError(loc[t].out)
              /\ (pc[t] = "done" /\ req[t].op = "list")
                    => /\ res[t].kind = "return"
                       /\ {res[t].value.actions[i].id : i \in DOMAIN res[t].value.actions}
                              = Keys(r.value)

\* A stored Action was executed and returned its prompt, beside another one.
ExecutedStored ==
    \E t \in Tasks :
        /\ pc[t] = "done" /\ req[t].op = "ws" /\ IsCustom(req[t].id)
        /\ res[t].kind = "return"
        /\ res[t].value.status = "ok"
        /\ load_custom_actions(doc).kind = "return"
        /\ Cardinality(Keys(load_custom_actions(doc).value)) = 2

(***************************************************************************)
(* Loads that run while the document is rewritten.                         *)
(***************************************************************************)
\* The requests that are between the load and the end of write_text.
Writers == {u \in Tasks : pc[u] \in {"write_open", "write_text"}}

\* The Action id is persisted and no save or delete in progress removes it:
\* the mapping before the rewrite and the one after it both hold it.
Persisted(id) ==
    IF Writers = {}
    THEN LET r == load_custom_actions(doc)
         IN  r.kind = "return" /\ id \in Keys(r.value)
    ELSE \A u \in Writers : id \in Keys(loc[u].loaded) /\ id \in Keys(loc[u].actions)

\* C17: execute of an Action that is persisted, and that no delete in
\* progress targets, never reports not-found, also when its load runs
\* while a save or delete rewrites the document.
PersistedIsFound ==
    [][\A t \in Tasks :
          (/\ pc[t] = "exec_call" /\ pc'[t] # "exec_call"
           /\ IsCustom(req[t].id)
           /\ Persisted(req[t].id))
              => ~(pc'[t] = "ws_send" /\ loc'[t].out = NotFoundError(req[t].id))
      ]_vars

(***************************************************************************)
(* save and delete over a document that does not parse.                    *)
(***************************************************************************)
\* The document exists and its content is not a JSON text.
Unparseable == doc.kind \in {"badjson", "badutf8"}

\* The step of request t is a call of POST /api/approve-action.
ApproveStarts(t) ==
    /\ Free(t) /\ req'[t].op = "approve"
    /\ <<pc[t], req[t], res[t]>>' # <<pc[t], req[t], res[t]>>

\* C18: over a document that exists and does not parse, save(id, p, c)
\* reports ok and leaves a well-formed document that holds the entry at id
\* and no other, and delete(id) reports not-found and leaves the document
\* as it is.
UnparseableDocHandled ==
    [][\A t \in Tasks :
          /\ (Unparseable /\ ApproveStarts(t))
                => /\ pc'[t] = "write_open"
                   /\ loc'[t].loaded = <<>>
                   /\ Keys(loc'[t].actions) = {req'[t].id}
          /\ (pc[t] = "write_text" /\ pc'[t] = "done" /\ req[t].op = "approve"
                                   /\ loc[t].loaded = <<>>)
                => /\ doc'.kind = "json"
                   /\ load_custom_actions(doc') =
                         Return(<<[key |-> req[t].id,
                                   val |-> [id |-> req[t].id, prompt |-> req[t].prompt,
                                            code |-> req[t].code]]>>)
                   /\ res'[t] = Return([status |-> "ok", id |-> req[t].id])
          /\ (Unparseable /\ DeleteStarts(t))
                => /\ pc'[t] = "done"
                   /\ doc' = doc
                   /\ res'[t] = Return([status |-> "error",
                                        message |-> Msg("Action not found", "")])
      ]_vars

====
